---------------------------- MODULE Spec2Model ----------------------------
(***************************************************************************)
(* A model of json.hpp: the PEG combinator engine (token, all, many,       *)
(* cases, lazy), the hand-written matchers (wsmatch, nummatch, strmatch),  *)
(* the JSON grammar, the decoder and encoder walks, the ordered map        *)
(* json::hash and the public entry points json::decode / json::encode.     *)
(*                                                                         *)
(* Text is a sequence of one-character strings.  A C buffer is the text,   *)
(* its terminating NUL and whatever bytes lie after the terminator:        *)
(* reading those bytes is undefined behaviour, modelled as a               *)
(* nondeterministic choice of their content.                               *)
(***************************************************************************)
EXTENDS Integers, Sequences, FiniteSets, TLC

VARIABLES
    text,     \* the std::string handed to json::decode
    res,      \* what json::decode did: outcome, error, value
    val,      \* the json::value the caller constructed
    h,        \* the json::hash the caller fills for json::object
    out,      \* the text json::encode returned
    pc,       \* the caller of encode: "build", "encoded" or "decoded"
    mrule,    \* many(): the wrapped rule
    mpos,     \* many(): int pos
    mi,       \* many(): the running offset i
    mdata,    \* many(): vector<ptr<ast>> data
    mpc,      \* many(): where the call is: "idle", "loop" or "done"
    mres,     \* many(): the ast returned
    si,       \* strmatch: the start offset of the call, -1 before it
    sres      \* strmatch: the ast returned

vars == <<text, res, val, h, out, pc,
          mrule, mpos, mi, mdata, mpc, mres, si, sres>>

(***************************************************************************)
(* Bounds of the model.                                                    *)
(***************************************************************************)
MaxPieces == 4      \* an input text is built from at most this many pieces
MaxBeyond == 1      \* bytes modelled behind the terminating NUL
MaxStrLen == 4      \* length of the texts handed to strmatch alone
MaxManyLen == 3     \* length of the texts handed to many() alone
MaxManyData == 4    \* many(): cap on the children collected by a call
MaxNodes == 3       \* nodes of the value trees built by the constructors

NUL == "NUL"

Max(a, b) == IF a >= b THEN a ELSE b
Min(a, b) == IF a <= b THEN a ELSE b

(***************************************************************************)
(* C strings.                                                              *)
(***************************************************************************)
\* s.c_str(): the text, the terminator, and the bytes that follow it
c_str(t, g) == t \o <<NUL>> \o g

\* s[c]; the bytes behind the modelled memory read as NUL
CharAt(s, c) == IF c >= 0 /\ c < Len(s) THEN s[c + 1] ELSE NUL

\* strlen(s + c): the distance from offset c to the next NUL
strlenFrom(s, c) ==
    LET nuls == {k \in c..Max(c, Len(s)) : CharAt(s, k) = NUL}
    IN  (CHOOSE k \in nuls : \A j \in nuls : k <= j) - c

strlen(s) == strlenFrom(s, 0)

\* std::string(p) for p = s + i: the characters up to the next NUL
StdString(s, i) == SubSeq(s, i + 1, i + strlenFrom(s, i))

\* std::string(p).substr(0, n) for p = s + i
RECURSIVE StdStringPrefix(_, _, _)
StdStringPrefix(s, i, n) ==
    IF n = 0 \/ CharAt(s, i) = NUL THEN <<>>
    ELSE <<CharAt(s, i)>> \o StdStringPrefix(s, i + 1, n - 1)

\* std::string::substr(pos, n), for pos <= size()
substr(t, pos, n) == SubSeq(t, pos + 1, Min(pos + n, Len(t)))

\* str(s, pos, n): s converts to a std::string, of which (pos, n) is the substring
str3(s, pos, n) == substr(StdString(s, 0), pos, n)

(***************************************************************************)
(* struct ast, fail, isfail.                                               *)
(***************************************************************************)
ast(pos, length, error, tag, data, txt) ==
    [pos |-> pos, length |-> length, error |-> error,
     tag |-> tag, data |-> data, text |-> txt]

fail(pos, error, tag) == ast(pos, -1, error, tag, <<>>, <<>>)

isfail(a) == a.length = -1

(***************************************************************************)
(* Primitive matchers.                                                     *)
(***************************************************************************)
tokenmatch(t, tag, s, i) ==
    LET cmp == StdStringPrefix(s, i, Len(t))
    IN  IF t = cmp THEN ast(i, Len(t), i, tag, <<>>, t)
        ELSE fail(i, i, tag)

IsWs(e) == e \in {" ", "\t", "\r", "\n", ","}

RECURSIVE wsloop(_, _, _)
wsloop(s, i, c) ==
    IF IsWs(CharAt(s, c)) THEN wsloop(s, i, c + 1)
    ELSE ast(i, c - i, c, "ws", <<>>, <<>>)

wsmatch(s, i) == wsloop(s, i, i)

Digit == {"0", "1", "2", "3", "4", "5", "6", "7", "8", "9"}

RECURSIVE numloop(_, _, _)
numloop(s, i, c) ==
    IF CharAt(s, c) \in Digit THEN numloop(s, i, c + 1)
    ELSE IF CharAt(s, c) = "." THEN numloop(s, i, c + 1)
    ELSE IF c = i THEN fail(i, i, "number")
    ELSE ast(i, c - i, c, "number", <<>>, str3(s, i, c - i))

nummatch(s, i) == numloop(s, i, i)

\* the offset at which the scan next meets a backslash, a NUL or a quote: the
\* c++ branch of the loop, taken once for every other character
strskip(s, c) ==
    LET stops == {k \in c..Max(c, Len(s)) : CharAt(s, k) \in {"\\", NUL, "\""}}
    IN  CHOOSE k \in stops : \A j \in stops : k <= j

RECURSIVE strloop(_, _, _)
strloop(s, i, c) ==
    LET n == strskip(s, c)
    IN  IF CharAt(s, n) = "\\" THEN strloop(s, i, n + 2)
        ELSE IF CharAt(s, n) = NUL THEN fail(i, n, "string")
        ELSE ast(i, n + 1 - i, n, "string", <<>>, str3(s, i, n + 1 - i))

strmatch(s, i) ==
    IF CharAt(s, i) # "\"" THEN fail(i, i, "string")
    ELSE strloop(s, i, i + 1)

(***************************************************************************)
(* Rules.  A rule of the source is a closure; here it is the record of     *)
(* what the closure captured, and Apply is its call operator.              *)
(***************************************************************************)
token(t, tag) == [kind |-> "token", t |-> t, tag |-> tag]
all(rules, tag) == [kind |-> "all", rules |-> rules, tag |-> tag]
many(rule, tag) == [kind |-> "many", rule |-> rule, tag |-> tag]
cases(rules, tag) == [kind |-> "cases", rules |-> rules, tag |-> tag]
lazy(name) == [kind |-> "lazy", rule |-> name]
matcher(name) == [kind |-> name]

(***************************************************************************)
(* namespace parser: the grammar.                                          *)
(***************************************************************************)
parser_ws == matcher("wsmatch")
\* parser::boolean with a tag that decoder::element does not know
parser_boolean_mut ==
    cases(<<token(<<"t", "r", "u", "e">>, ""),
            token(<<"f", "a", "l", "s", "e">>, "")>>, "bool")
parser_boolean ==
    cases(<<token(<<"t", "r", "u", "e">>, ""),
            token(<<"f", "a", "l", "s", "e">>, "")>>, "boolean")
parser_number == matcher("nummatch")
parser_string == matcher("strmatch")
parser_member ==
    all(<<parser_string, parser_ws, token(<<":">>, ""), parser_ws,
          lazy("element_ptr")>>, "")
parser_array ==
    all(<<token(<<"[">>, ""), parser_ws,
          many(all(<<lazy("element_ptr"), parser_ws>>, ""), ""),
          parser_ws, token(<<"]">>, "")>>, "array")
parser_object ==
    all(<<token(<<"{">>, ""), parser_ws,
          many(all(<<parser_member, parser_ws>>, ""), ""),
          parser_ws, token(<<"}">>, "")>>, "object")
parser_element ==
    cases(<<parser_array, parser_object, parser_string, parser_boolean,
            parser_number>>, "element")
element_ptr == parser_element

(***************************************************************************)
(* The combinators' call operators.                                        *)
(***************************************************************************)
RECURSIVE Apply(_, _, _)
RECURSIVE allloop(_, _, _, _, _, _, _)
RECURSIVE manyloop(_, _, _, _, _, _)
RECURSIVE casesloop(_, _, _, _, _, _)

\* the largest error among the sub-results collected so far, or error
RECURSIVE maxerror(_, _)
maxerror(data, error) ==
    IF data = <<>> THEN error
    ELSE maxerror(Tail(data), Max(error, Head(data).error))

\* all(): the loop from the k-th rule on
allloop(rules, tag, s, pos, k, i, data) ==
    IF k > Len(rules) THEN ast(pos, i - pos, pos, tag, data, <<>>)
    ELSE LET a == Apply(rules[k], s, i)
         IN  IF isfail(a)
             THEN fail(a.pos, maxerror(Append(data, a), pos), a.tag)
             ELSE allloop(rules, tag, s, pos, k + 1, i + a.length,
                          Append(data, a))

\* many(): one pass through the body of for(;;), from the state (i, data)
manybody(rule, tag, s, pos, i, data) ==
    LET size == strlen(s)
        a == Apply(rule, s, i)
    IN  IF i + a.length >= size \/ isfail(a)
        THEN [done |-> TRUE,
              ast |-> ast(pos, i - pos, a.error, tag, data, <<>>)]
        ELSE [done |-> FALSE, i |-> i + a.length, data |-> Append(data, a)]

manyloop(rule, tag, s, pos, i, data) ==
    LET b == manybody(rule, tag, s, pos, i, data)
    IN  IF b.done THEN b.ast
        ELSE manyloop(rule, tag, s, pos, b.i, b.data)

\* cases(): the loop from the k-th rule on
casesloop(rules, tag, s, i, k, error) ==
    IF k > Len(rules) THEN fail(i, error, tag)
    ELSE LET a == Apply(rules[k], s, i)
         IN  IF ~isfail(a) THEN ast(i, a.length, i, tag, <<a>>, <<>>)
             ELSE casesloop(rules, tag, s, i, k + 1, Max(error, a.error))

Apply(rule, s, i) ==
    CASE rule.kind = "token" -> tokenmatch(rule.t, rule.tag, s, i)
      [] rule.kind = "wsmatch" -> wsmatch(s, i)
      [] rule.kind = "nummatch" -> nummatch(s, i)
      [] rule.kind = "strmatch" -> strmatch(s, i)
      [] rule.kind = "all" -> allloop(rule.rules, rule.tag, s, i, 1, i, <<>>)
      [] rule.kind = "many" -> manyloop(rule.rule, rule.tag, s, i, i, <<>>)
      [] rule.kind = "cases" -> casesloop(rule.rules, rule.tag, s, i, 1, i)
      [] rule.kind = "lazy" -> Apply(element_ptr, s, i)

(***************************************************************************)
(* Numbers.  A double is modelled by the decimal it stands for,            *)
(* (-1)^neg * m * 10^e with m not divisible by 10 (zero: m = 0, e = 0).    *)
(* Decimals of up to 15 significant digits, all the model meets, go to     *)
(* double and back without loss, so equal decimals are equal doubles.      *)
(***************************************************************************)
RECURSIVE normal(_, _, _)
normal(neg, m, e) ==
    IF m = 0 THEN [neg |-> FALSE, m |-> 0, e |-> 0]
    ELSE IF m % 10 = 0 THEN normal(neg, m \div 10, e + 1)
    ELSE [neg |-> neg, m |-> m, e |-> e]

Zero == normal(FALSE, 0, 0)

DigitVal(c) ==
    CASE c = "0" -> 0 [] c = "1" -> 1 [] c = "2" -> 2 [] c = "3" -> 3
      [] c = "4" -> 4 [] c = "5" -> 5 [] c = "6" -> 6 [] c = "7" -> 7
      [] c = "8" -> 8 [] c = "9" -> 9

RECURSIVE DigitsValue(_, _)
DigitsValue(t, acc) ==
    IF t = <<>> THEN acc
    ELSE DigitsValue(Tail(t), 10 * acc + DigitVal(Head(t)))

RECURSIVE DigitRun(_)
DigitRun(t) ==
    IF t = <<>> \/ Head(t) \notin Digit THEN <<>>
    ELSE <<Head(t)>> \o DigitRun(Tail(t))

\* std::stod: converts the longest prefix digits [. digits] holding a digit and
\* ignores the rest; throws std::invalid_argument when there is no such prefix
stod(t) ==
    LET int == DigitRun(t)
        rest == SubSeq(t, Len(int) + 1, Len(t))
        frac == IF rest # <<>> /\ Head(rest) = "." THEN DigitRun(Tail(rest))
                ELSE <<>>
    IN  IF int = <<>> /\ frac = <<>>
        THEN [threw |-> TRUE, value |-> Zero]
        ELSE [threw |-> FALSE,
              value |-> normal(FALSE, DigitsValue(int \o frac, 0), -Len(frac))]

(***************************************************************************)
(* json::hash, json::value and the public constructors.                    *)
(***************************************************************************)
nullptr == [type |-> "nullptr"]

hash_has(v, key) == \E k \in 1..Len(v) : v[k].first = key

\* operator[]: the vector afterwards and the index of the slot referred to
hash_subscript(v, key) ==
    IF \E k \in 1..Len(v) : v[k].first = key
    THEN [v |-> v,
          at |-> CHOOSE k \in 1..Len(v) :
                    v[k].first = key /\ \A j \in 1..(k - 1) : v[j].first # key]
    ELSE [v |-> Append(v, [first |-> key, second |-> nullptr]),
          at |-> Len(v) + 1]

\* (*this)[key] = x
hash_assign(v, key, x) ==
    LET r == hash_subscript(v, key)
    IN  [r.v EXCEPT ![r.at].second = x]

\* hash(initializer_list)
RECURSIVE hash_init(_, _)
hash_init(v, il) ==
    IF il = <<>> THEN v
    ELSE hash_init(hash_assign(v, Head(il).first, Head(il).second), Tail(il))

\* new value()
value0 ==
    [type |-> "", boolean |-> FALSE, number |-> Zero, string |-> <<>>,
     array |-> <<>>, object |-> <<>>]

json_boolean(b) == [value0 EXCEPT !.type = "boolean", !.boolean = b]
json_number(n) == [value0 EXCEPT !.type = "number", !.number = n]
json_string(t) == [value0 EXCEPT !.type = "string", !.string = t]
json_array(a) == [value0 EXCEPT !.type = "array", !.array = a]
json_object(o) == [value0 EXCEPT !.type = "object", !.object = o]

(***************************************************************************)
(* namespace decoder.  A walk ends "ok" with a value, "threw" (std::stod's *)
(* exception leaves json::decode), "abort" (the abort() of element) or     *)
(* "oob" (a data[k] that the node does not have).                          *)
(***************************************************************************)
Ok(v) == [st |-> "ok", v |-> v]
Stop(st) == [st |-> st, v |-> nullptr]

RECURSIVE decoder_element(_)
RECURSIVE decoder_arrayloop(_, _, _)
RECURSIVE decoder_objectloop(_, _, _)

decoder_boolean(a) ==
    IF Len(a.data) < 1 THEN Stop("oob")
    ELSE Ok(json_boolean(a.data[1].text = <<"t", "r", "u", "e">>))

decoder_number(a) ==
    LET r == stod(a.text)
    IN  IF r.threw THEN Stop("threw") ELSE Ok(json_number(r.value))

\* decoder::string keeping the closing quote: size() - 1 for size() - 2
decoder_string_mut(a) == Ok(json_string(substr(a.text, 1, Len(a.text) - 1)))
decoder_string(a) == Ok(json_string(substr(a.text, 1, Len(a.text) - 2)))

decoder_arrayloop(es, k, v) ==
    IF k > Len(es) THEN Ok(v)
    ELSE IF Len(es[k].data) < 1 THEN Stop("oob")
    ELSE LET d == decoder_element(es[k].data[1])
         IN  IF d.st # "ok" THEN d
             ELSE decoder_arrayloop(es, k + 1,
                                    [v EXCEPT !.array = Append(@, d.v)])

decoder_array(a) ==
    IF Len(a.data) < 3 THEN Stop("oob")
    ELSE decoder_arrayloop(a.data[3].data, 1, json_array(<<>>))

decoder_objectloop(es, k, v) ==
    IF k > Len(es) THEN Ok(v)
    ELSE IF Len(es[k].data) < 1 \/ Len(es[k].data[1].data) < 5
         THEN Stop("oob")
    ELSE LET key == es[k].data[1].data[1].text
             d == decoder_element(es[k].data[1].data[5])
         IN  IF d.st # "ok" THEN d
             ELSE decoder_objectloop(es, k + 1,
                    [v EXCEPT !.object =
                        Append(@, [first |-> substr(key, 1, Len(key) - 2),
                                   second |-> d.v])])

decoder_object(a) ==
    IF Len(a.data) < 3 THEN Stop("oob")
    ELSE decoder_objectloop(a.data[3].data, 1, json_object(<<>>))

decoder_element(a) ==
    IF Len(a.data) < 1 THEN Stop("oob")
    ELSE IF a.data[1].tag = "boolean" THEN decoder_boolean(a.data[1])
    ELSE IF a.data[1].tag = "number" THEN decoder_number(a.data[1])
    ELSE IF a.data[1].tag = "string" THEN decoder_string(a.data[1])
    ELSE IF a.data[1].tag = "array" THEN decoder_array(a.data[1])
    ELSE IF a.data[1].tag = "object" THEN decoder_object(a.data[1])
    ELSE Stop("abort")

(***************************************************************************)
(* json::decode on the buffer s = text.c_str().  outcome is "returned"     *)
(* when a decoded is returned to the caller, and otherwise how the call    *)
(* ended instead.                                                          *)
(***************************************************************************)
decode_buf(s) ==
    LET a == Apply(parser_element, s, 0)
    IN  IF isfail(a)
        THEN [outcome |-> "returned", error |-> a.error, value |-> nullptr]
        ELSE LET d == decoder_element(a)
             IN  IF d.st = "ok"
                 THEN [outcome |-> "returned", error |-> -1, value |-> d.v]
                 ELSE [outcome |-> d.st, error |-> -1, value |-> nullptr]

decode(t, g) == decode_buf(c_str(t, g))

NotCalled == [outcome |-> "none", error |-> -1, value |-> nullptr]

(***************************************************************************)
(* operator<<(double) of a default-constructed stream: printf's %g with    *)
(* precision 6.  Six significant digits, trailing zeros dropped, fixed     *)
(* notation for a decimal exponent in -4..5 and d.ddddde+XX otherwise.     *)
(* A decimal of more than six digits is rounded half up; the model is not  *)
(* given decimals that lie exactly half way.                               *)
(***************************************************************************)
Precision == 6

RECURSIVE Pow10(_)
Pow10(k) == IF k = 0 THEN 1 ELSE 10 * Pow10(k - 1)

DigitChar(d) ==
    CASE d = 0 -> "0" [] d = 1 -> "1" [] d = 2 -> "2" [] d = 3 -> "3"
      [] d = 4 -> "4" [] d = 5 -> "5" [] d = 6 -> "6" [] d = 7 -> "7"
      [] d = 8 -> "8" [] d = 9 -> "9"

RECURSIVE NatDigits(_)
NatDigits(n) ==
    IF n < 10 THEN <<DigitChar(n)>>
    ELSE NatDigits(n \div 10) \o <<DigitChar(n % 10)>>

RECURSIVE Zeros(_)
Zeros(k) == IF k <= 0 THEN <<>> ELSE <<"0">> \o Zeros(k - 1)

RECURSIVE StripZeros(_)
StripZeros(n) == IF n # 0 /\ n % 10 = 0 THEN StripZeros(n \div 10) ELSE n

\* the significant digits printed and the decimal exponent of the first one
Rounded(n) ==
    LET nd == Len(NatDigits(n.m))
        x == nd - 1 + n.e
    IN  IF nd <= Precision THEN [sig |-> n.m, x |-> x]
        ELSE LET unit == Pow10(nd - Precision)
                 q == n.m \div unit
                 up == IF 2 * (n.m % unit) >= unit THEN q + 1 ELSE q
             IN  IF up = Pow10(Precision) THEN [sig |-> 1, x |-> x + 1]
                 ELSE [sig |-> StripZeros(up), x |-> x]

format_double(n) ==
    LET r == Rounded(n)
        d == NatDigits(r.sig)
        x == r.x
        xa == IF x < 0 THEN -x ELSE x
        body ==
            IF n.m = 0 THEN <<"0">>
            ELSE IF x < -4 \/ x >= Precision
            THEN <<Head(d)>>
                 \o (IF Len(d) > 1 THEN <<".">> \o Tail(d) ELSE <<>>)
                 \o <<"e", IF x < 0 THEN "-" ELSE "+">>
                 \o (IF xa < 10 THEN <<"0">> ELSE <<>>) \o NatDigits(xa)
            ELSE IF x >= 0
            THEN SubSeq(d, 1, Min(x + 1, Len(d))) \o Zeros(x + 1 - Len(d))
                 \o (IF Len(d) > x + 1
                     THEN <<".">> \o SubSeq(d, x + 2, Len(d)) ELSE <<>>)
            ELSE <<"0", ".">> \o Zeros(-x - 1) \o d
    IN  (IF n.neg THEN <<"-">> ELSE <<>>) \o body

(***************************************************************************)
(* namespace encoder.  encodeos is the text it appends to the stream.      *)
(***************************************************************************)
comma(c) == IF c THEN <<",", "\n">> ELSE <<"\n">>

Indent4 == <<" ", " ", " ", " ">>

RECURSIVE encodeos(_, _, _)
RECURSIVE encode_array(_, _, _)
RECURSIVE encode_object(_, _, _)

\* the loop over v->array from the k-th element on
encode_array(es, k, tab) ==
    IF k > Len(es) THEN <<>>
    ELSE encodeos(es[k], tab \o Indent4, k < Len(es))
         \o encode_array(es, k + 1, tab)

\* the loop over v->object.vector() from the k-th member on
encode_object(ms, k, tab) ==
    IF k > Len(ms) THEN <<>>
    ELSE tab \o Indent4 \o <<"\"">> \o ms[k].first \o <<"\"", ":", "\n">>
         \o encodeos(ms[k].second, tab \o Indent4 \o Indent4, k < Len(ms))
         \o encode_object(ms, k + 1, tab)

encodeos(v, tab, c) ==
    (IF v.type = "boolean"
     THEN tab \o (IF v.boolean THEN <<"t", "r", "u", "e">>
                  ELSE <<"f", "a", "l", "s", "e">>) \o comma(c)
     ELSE <<>>)
    \o (IF v.type = "number"
        THEN tab \o format_double(v.number) \o comma(c) ELSE <<>>)
    \o (IF v.type = "string"
        THEN tab \o <<"\"">> \o v.string \o <<"\"">> \o comma(c) ELSE <<>>)
    \o (IF v.type = "array"
        THEN tab \o <<"[", "\n">> \o encode_array(v.array, 1, tab)
             \o tab \o <<"]">> \o comma(c)
        ELSE <<>>)
    \o (IF v.type = "object"
        THEN tab \o <<"{", "\n">> \o encode_object(v.object, 1, tab)
             \o tab \o <<"}">> \o comma(c)
        ELSE <<>>)

encode(v) == encodeos(v, <<>>, FALSE)

(***************************************************************************)
(* The state machines.                                                     *)
(***************************************************************************)
\* what may lie behind the terminator: nothing but NULs, or quotes
RECURSIVE Beyond(_)
Beyond(n) ==
    IF n = 0 THEN {<<>>}
    ELSE Beyond(n - 1) \cup {Append(g, "\"") : g \in Beyond(n - 1)}

\* the texts made of at most n of the pieces ps
RECURSIVE Texts(_, _)
Texts(ps, n) ==
    IF n = 0 THEN {<<>>}
    ELSE Texts(ps, n - 1) \cup {t \o p : t \in Texts(ps, n - 1), p \in ps}

(***************************************************************************)
(* SpecDecode: json::decode on every text of at most MaxPieces pieces.     *)
(***************************************************************************)
Pieces ==
    { <<"[">>, <<"]">>, <<"{">>, <<"}">>, <<"\"">>, <<"\\">>, <<"a">>,
      <<",">>, <<"1">>, <<".">>, <<"t", "r", "u", "e">>,
      <<"\"", "a", "\"", ":", "1">> }

Decode ==
    /\ res = NotCalled
    /\ \E g \in Beyond(MaxBeyond) : res' = decode(text, g)
    /\ UNCHANGED <<text, val, h, out, pc,
                   mrule, mpos, mi, mdata, mpc, mres, si, sres>>

InitDecode ==
    /\ text \in Texts(Pieces, MaxPieces)
    /\ res = NotCalled
    /\ val = nullptr /\ h = <<>> /\ out = <<>> /\ pc = "build"
    /\ mrule = parser_ws /\ mpos = 0 /\ mi = 0 /\ mdata = <<>>
    /\ mpc = "idle" /\ mres = fail(0, 0, "")
    /\ si = -1 /\ sres = fail(0, 0, "")

NextDecode == Decode

SpecDecode == InitDecode /\ [][NextDecode]_vars

(***************************************************************************)
(* SpecWalk: json::decode on the texts made of the pieces that build       *)
(* values, among them a string that ends in a backslash.                   *)
(***************************************************************************)
WalkPieces ==
    { <<"[">>, <<"]">>, <<"{">>, <<"}">>, <<"1">>, <<"t", "r", "u", "e">>,
      <<"\"", "a", "\"">>, <<"\"", "a", "\"", ":">>, <<"\"", "\\">> }

InitWalk ==
    /\ text \in Texts(WalkPieces, MaxPieces)
    /\ res = NotCalled
    /\ val = nullptr /\ h = <<>> /\ out = <<>> /\ pc = "build"
    /\ mrule = parser_ws /\ mpos = 0 /\ mi = 0 /\ mdata = <<>>
    /\ mpc = "idle" /\ mres = fail(0, 0, "")
    /\ si = -1 /\ sres = fail(0, 0, "")

SpecWalk == InitWalk /\ [][NextDecode]_vars

(***************************************************************************)
(* SpecStr: strmatch alone, at every offset of every text of quotes,       *)
(* backslashes and letters.                                                *)
(***************************************************************************)
StrPieces == { <<"\"">>, <<"\\">>, <<"a">> }

StrMatch ==
    /\ si = -1
    /\ \E i \in 0..Len(text), g \in Beyond(MaxBeyond) :
          /\ si' = i
          /\ sres' = strmatch(c_str(text, g), i)
    /\ UNCHANGED <<text, res, val, h, out, pc,
                   mrule, mpos, mi, mdata, mpc, mres>>

InitStr ==
    /\ text \in Texts(StrPieces, MaxStrLen)
    /\ res = NotCalled
    /\ val = nullptr /\ h = <<>> /\ out = <<>> /\ pc = "build"
    /\ mrule = parser_ws /\ mpos = 0 /\ mi = 0 /\ mdata = <<>>
    /\ mpc = "idle" /\ mres = fail(0, 0, "")
    /\ si = -1 /\ sres = fail(0, 0, "")

NextStr == StrMatch

SpecStr == InitStr /\ [][NextStr]_vars

(***************************************************************************)
(* SpecMany: one call of the closure many(rule) returns, a pass of its     *)
(* for(;;) at a time.  The rules wrapped are the whitespace run, the       *)
(* number run, a token and the sequence the grammar's array wraps.         *)
(***************************************************************************)
ManyPieces == { <<" ">>, <<"1">>, <<"a">> }

ManyRules ==
    { parser_ws, parser_number, token(<<"a">>, ""),
      all(<<lazy("element_ptr"), parser_ws>>, "") }

\* the closure is called: int size, int pos, data are set up
ManyCall ==
    /\ mpc = "idle"
    /\ mpc' = "loop"
    /\ mi' = mpos
    /\ mdata' = <<>>
    /\ UNCHANGED <<text, res, val, h, out, pc, mrule, mpos, mres,
                   si, sres>>

\* a pass that reaches the end of the body: i and data grow
ManyPass ==
    /\ mpc = "loop"
    /\ Len(mdata) < MaxManyData
    /\ LET b == manybody(mrule, "", c_str(text, <<>>), mpos, mi, mdata)
       IN  /\ ~b.done
           /\ mi' = b.i
           /\ mdata' = b.data
    /\ UNCHANGED <<text, res, val, h, out, pc, mrule, mpos, mpc, mres,
                   si, sres>>

\* a pass that returns
ManyReturn ==
    /\ mpc = "loop"
    /\ LET b == manybody(mrule, "", c_str(text, <<>>), mpos, mi, mdata)
       IN  /\ b.done
           /\ mres' = b.ast
    /\ mpc' = "done"
    /\ UNCHANGED <<text, res, val, h, out, pc, mrule, mpos, mi, mdata,
                   si, sres>>

InitMany ==
    /\ text \in Texts(ManyPieces, MaxManyLen)
    /\ mrule \in ManyRules
    /\ mpos \in 0..Len(text)
    /\ res = NotCalled
    /\ val = nullptr /\ h = <<>> /\ out = <<>> /\ pc = "build"
    /\ mi = 0 /\ mdata = <<>>
    /\ mpc = "idle" /\ mres = fail(0, 0, "")
    /\ si = -1 /\ sres = fail(0, 0, "")

NextMany == ManyCall \/ ManyPass \/ ManyReturn

SpecMany == InitMany /\ [][NextMany]_vars

(***************************************************************************)
(* SpecValue: a value tree of at most MaxNodes nodes, built with the       *)
(* public constructors, is encoded and the text is decoded.                *)
(***************************************************************************)
Doubles ==
    { normal(FALSE, 0, 0),          \* 0
      normal(FALSE, 1, -4),         \* 0.0001
      normal(FALSE, 1, -5),         \* 0.00001
      normal(FALSE, 15, -1),        \* 1.5
      normal(FALSE, 999999, 0),     \* 999999
      normal(FALSE, 1, 6),          \* 1000000
      normal(FALSE, 1234567, -3),   \* 1234.567
      normal(TRUE, 2, 0) }          \* -2

Strings == { <<>>, <<"a", " ", "b">>, <<"a", "\"">> }

Keys == { <<"a">>, <<"b">> }

Leaves ==
    {json_boolean(b) : b \in BOOLEAN}
    \cup {json_number(n) : n \in Doubles}
    \cup {json_string(t) : t \in Strings}

RECURSIVE Nodes(_)
RECURSIVE NodesOf(_, _)
NodesOf(vs, k) == IF k > Len(vs) THEN 0 ELSE Nodes(vs[k]) + NodesOf(vs, k + 1)
Nodes(v) ==
    1 + (IF v.type = "array" THEN NodesOf(v.array, 1) ELSE 0)
      + (IF v.type = "object"
         THEN NodesOf([k \in 1..Len(v.object) |-> v.object[k].second], 1)
         ELSE 0)

\* Trees(n): what the constructors build with at most n nodes; Forests(n): the
\* vectors of such values with at most n nodes in all; an object is built
\* from an initializer list of members, whose keys may repeat.
RECURSIVE Trees(_)
RECURSIVE Forests(_)
Forests(n) ==
    {<<>>} \cup UNION {{<<t>> \o f : f \in Forests(n - Nodes(t))} : t \in Trees(n)}

Members(f) ==
    { [k \in 1..Len(f) |-> [first |-> ks[k], second |-> f[k]]] :
        ks \in [1..Len(f) -> Keys] }

Trees(n) ==
    IF n <= 0 THEN {}
    ELSE Leaves
         \cup {json_array(f) : f \in Forests(n - 1)}
         \cup UNION {{json_object(hash_init(<<>>, il)) : il \in Members(f)} :
                      f \in Forests(n - 1)}

\* out = json::encode(val)
Encode ==
    /\ pc = "build"
    /\ out' = encode(val)
    /\ pc' = "encoded"
    /\ UNCHANGED <<text, res, val, h,
                   mrule, mpos, mi, mdata, mpc, mres, si, sres>>

\* res = json::decode(out)
DecodeEncoded ==
    /\ pc = "encoded"
    /\ text' = out
    /\ \E g \in Beyond(MaxBeyond) : res' = decode(out, g)
    /\ pc' = "decoded"
    /\ UNCHANGED <<val, h, out,
                   mrule, mpos, mi, mdata, mpc, mres, si, sres>>

InitValue ==
    /\ val \in Trees(MaxNodes)
    /\ text = <<>> /\ res = NotCalled
    /\ h = <<>> /\ out = <<>> /\ pc = "build"
    /\ mrule = parser_ws /\ mpos = 0 /\ mi = 0 /\ mdata = <<>>
    /\ mpc = "idle" /\ mres = fail(0, 0, "")
    /\ si = -1 /\ sres = fail(0, 0, "")

NextValue == Encode \/ DecodeEncoded

SpecValue == InitValue /\ [][NextValue]_vars

(***************************************************************************)
(* SpecObject: the two ways a member list comes about: a caller's          *)
(* operator[] assignments and initializer lists on a json::hash, and       *)
(* json::decode on a text of members.                                      *)
(***************************************************************************)
ObjectPieces ==
    { <<"{">>, <<"}">>, <<",">>, <<"\"", "a", "\"", ":", "1">>,
      <<"\"", "b", "\"", ":", "1">> }

HashKeys == { <<"a">>, <<"b">> }

HashValues == { json_boolean(TRUE), json_boolean(FALSE) }

\* h[key] = x
HashAssign ==
    /\ \E key \in HashKeys, x \in HashValues : h' = hash_assign(h, key, x)
    /\ UNCHANGED <<text, res, val, out, pc,
                   mrule, mpos, mi, mdata, mpc, mres, si, sres>>

\* h = { {k1, x1}, {k2, x2} }
HashInit ==
    /\ \E k1, k2 \in HashKeys, x1, x2 \in HashValues :
          h' = hash_init(<<>>, <<[first |-> k1, second |-> x1],
                                 [first |-> k2, second |-> x2]>>)
    /\ UNCHANGED <<text, res, val, out, pc,
                   mrule, mpos, mi, mdata, mpc, mres, si, sres>>

InitObject ==
    /\ text \in Texts(ObjectPieces, MaxPieces)
    /\ res = NotCalled
    /\ val = nullptr /\ h = <<>> /\ out = <<>> /\ pc = "build"
    /\ mrule = parser_ws /\ mpos = 0 /\ mi = 0 /\ mdata = <<>>
    /\ mpc = "idle" /\ mres = fail(0, 0, "")
    /\ si = -1 /\ sres = fail(0, 0, "")

NextObject == HashAssign \/ HashInit \/ Decode

SpecObject == InitObject /\ [][NextObject]_vars

(***************************************************************************)
(* Properties.                                                             *)
(***************************************************************************)
Called == res.outcome # "none"

\* the buffers json::decode may have read to end as res says
Buffers == {c_str(text, g) : g \in Beyond(MaxBeyond)}

\* C2: a decoded returned to the caller has error = -1 exactly when it holds a
\* value; on failure it holds none and error is an offset into the text,
\* 0 <= error <= length(text).
DecodedIsValueOrOffset ==
    res.outcome = "returned" =>
        \/ res.error = -1 /\ res.value # nullptr
        \/ /\ res.value = nullptr
           /\ 0 <= res.error /\ res.error <= Len(text)

\* The furthest error among the results of all the rule applications that
\* Apply(rule, s, i) makes, itself included.
RECURSIVE Furthest(_, _, _)
RECURSIVE FurthestAll(_, _, _, _)
RECURSIVE FurthestMany(_, _, _)
RECURSIVE FurthestCases(_, _, _, _)

FurthestAll(rules, s, k, i) ==
    IF k > Len(rules) THEN -1
    ELSE LET a == Apply(rules[k], s, i)
             m == Furthest(rules[k], s, i)
         IN  IF isfail(a) THEN m
             ELSE Max(m, FurthestAll(rules, s, k + 1, i + a.length))

FurthestMany(rule, s, i) ==
    LET a == Apply(rule, s, i)
        m == Furthest(rule, s, i)
    IN  IF i + a.length >= strlen(s) \/ isfail(a) THEN m
        ELSE Max(m, FurthestMany(rule, s, i + a.length))

FurthestCases(rules, s, k, i) ==
    IF k > Len(rules) THEN -1
    ELSE LET a == Apply(rules[k], s, i)
             m == Furthest(rules[k], s, i)
         IN  IF ~isfail(a) THEN m
             ELSE Max(m, FurthestCases(rules, s, k + 1, i))

Furthest(rule, s, i) ==
    Max(Apply(rule, s, i).error,
        CASE rule.kind = "all" -> FurthestAll(rule.rules, s, 1, i)
          [] rule.kind = "many" -> FurthestMany(rule.rule, s, i)
          [] rule.kind = "cases" -> FurthestCases(rule.rules, s, 1, i)
          [] rule.kind = "lazy" -> Furthest(element_ptr, s, i)
          [] OTHER -> -1)

\* C3: farthest failure wins: when decode fails, the error it reports is the
\* largest furthest-error value of any rule application made during the parse.
FarthestFailureWins ==
    \A s \in Buffers :
        (res = decode_buf(s) /\ res.outcome = "returned" /\ res.error # -1)
            => res.error = Furthest(parser_element, s, 0)

\* the offsets (from 1) of t that lie inside a string literal, its quotes apart
RECURSIVE InLiteral(_, _, _)
InLiteral(t, k, inside) ==
    IF k > Len(t) THEN {}
    ELSE IF ~inside THEN InLiteral(t, k + 1, t[k] = "\"")
    ELSE IF t[k] = "\\" THEN {k, k + 1} \cup InLiteral(t, k + 2, TRUE)
    ELSE IF t[k] = "\"" THEN InLiteral(t, k + 1, FALSE)
    ELSE {k} \cup InLiteral(t, k + 1, TRUE)

Whitespace == {" ", "\t", "\r", "\n", ","}

\* the texts that differ from t in one whitespace character (the comma is one)
\* outside the string literals
Respaced(t) ==
    { [t EXCEPT ![k] = w] :
        k \in {j \in 1..Len(t) : t[j] \in Whitespace} \ InLiteral(t, 1, FALSE),
        w \in Whitespace }

\* C4: comma is whitespace: replacing a comma outside a string literal by a
\* space, tab, CR or LF, or the reverse, leaves what decode does unchanged:
\* the same success or failure, the same error offset, an equal value.
CommaIsWhitespace ==
    Called =>
        \A t \in Respaced(text), g \in Beyond(MaxBeyond) : decode(t, g) = res

RECURSIVE KeysUniqueIn(_)
KeysUniqueIn(v) ==
    /\ v.type = "array" => \A k \in 1..Len(v.array) : KeysUniqueIn(v.array[k])
    /\ v.type = "object" =>
          /\ \A j, k \in 1..Len(v.object) :
                v.object[j].first = v.object[k].first => j = k
          /\ \A k \in 1..Len(v.object) : KeysUniqueIn(v.object[k].second)

\* C5: in every object value the member keys are pairwise distinct: in the
\* hash being filled, in the values constructed and in the values decoded.
KeysAreUnique ==
    /\ \A j, k \in 1..Len(h) : h[j].first = h[k].first => j = k
    /\ val # nullptr => KeysUniqueIn(val)
    /\ res.value # nullptr => KeysUniqueIn(res.value)

\* C6: many(rule) terminates.  Its body is a function of (s, i) alone, so the
\* call returns exactly when no pass that goes round again leaves i in place:
\* every such pass moves i forward, towards the end of the buffer.
ManyTerminates ==
    [][(mpc = "loop" /\ mpc' = "loop") => mi' > mi]_vars

RECURSIVE NumberTexts(_)
NumberTexts(a) ==
    (IF a.tag = "number" /\ ~isfail(a) THEN {a.text} ELSE {})
    \cup UNION {NumberTexts(a.data[k]) : k \in 1..Len(a.data)}

\* no digit at all, or more than one dot
Malformed(t) ==
    \/ \A k \in 1..Len(t) : t[k] \notin Digit
    \/ Cardinality({k \in 1..Len(t) : t[k] = "."}) > 1

\* C7: a text whose number run the number matcher accepts but which is not a
\* well-formed number is reported to the caller as a decode error.
MalformedNumberIsError ==
    \A s \in Buffers :
        LET a == Apply(parser_element, s, 0)
        IN  (Called /\ res = decode_buf(s) /\ ~isfail(a)
                /\ \E t \in NumberTexts(a) : Malformed(t))
                => res.outcome = "returned" /\ res.error # -1

\* C8: strmatch examines no offset behind the terminating NUL (error is the
\* last offset it examined) and succeeds only on a closing quote inside the
\* text.
StrMatchStaysInBuffer ==
    si # -1 =>
        /\ sres.error <= Len(text)
        /\ ~isfail(sres) =>
              /\ si + sres.length <= Len(text)
              /\ text[si + sres.length] = "\""

ElementTags == {"boolean", "number", "string", "array", "object"}

\* what decoder::element and the walks it calls read of the node a
RECURSIVE ElementShape(_)
ElementShape(a) ==
    /\ Len(a.data) = 1
    /\ a.data[1].tag \in ElementTags
    /\ LET c == a.data[1]
       IN  /\ c.tag = "boolean" => Len(c.data) >= 1
           /\ c.tag = "array" =>
                 /\ Len(c.data) >= 3
                 /\ \A k \in 1..Len(c.data[3].data) :
                       /\ Len(c.data[3].data[k].data) >= 1
                       /\ ElementShape(c.data[3].data[k].data[1])
           /\ c.tag = "object" =>
                 /\ Len(c.data) >= 3
                 /\ \A k \in 1..Len(c.data[3].data) :
                       /\ Len(c.data[3].data[k].data) >= 1
                       /\ Len(c.data[3].data[k].data[1].data) >= 5
                       /\ ElementShape(c.data[3].data[k].data[1].data[5])

\* C9: when the element rule succeeds, the decoder's walk meets only element
\* nodes whose single child is tagged boolean, number, string, array or
\* object, so it never reaches abort(), and every data[0], data[2], data[4]
\* it reads exists, at every depth.
GrammarAndDecoderInSync ==
    \A s \in Buffers :
        LET a == Apply(parser_element, s, 0)
        IN  (Called /\ res = decode_buf(s) /\ ~isfail(a))
                => /\ res.outcome \notin {"abort", "oob"}
                   /\ ElementShape(a)

\* a text was decoded into an array whose first element is an object or array
NestedWalked ==
    /\ res.outcome = "returned" /\ res.error = -1
    /\ res.value.type = "array" /\ Len(res.value.array) >= 1
    /\ res.value.array[1].type \in {"array", "object"}

\* C10: when the element rule matches a prefix of length n < length(text),
\* decode reports success, error = -1, with the value of that prefix, whatever
\* follows it.
PrefixDecodes ==
    \A s \in Buffers :
        LET a == Apply(parser_element, s, 0)
        IN  (Called /\ res = decode_buf(s) /\ ~isfail(a)
                /\ a.length < Len(text))
                => /\ res.outcome = "returned" /\ res.error = -1
                   /\ res.value # nullptr
                   /\ \A g \in Beyond(MaxBeyond) :
                         decode(SubSeq(text, 1, a.length), g) = res

\* no quote and no backslash in any string payload or member key of v
RECURSIVE PlainStrings(_)
PlainStrings(v) ==
    LET plain(t) == \A k \in 1..Len(t) : t[k] \notin {"\"", "\\", NUL}
    IN  /\ v.type = "string" => plain(v.string)
        /\ v.type = "array" =>
              \A k \in 1..Len(v.array) : PlainStrings(v.array[k])
        /\ v.type = "object" =>
              \A k \in 1..Len(v.object) :
                  plain(v.object[k].first) /\ PlainStrings(v.object[k].second)

\* every number of v satisfies P
RECURSIVE NumbersAre(_, _)
NumbersAre(P(_), v) ==
    /\ v.type = "number" => P(v.number)
    /\ v.type = "array" =>
          \A k \in 1..Len(v.array) : NumbersAre(P, v.array[k])
    /\ v.type = "object" =>
          \A k \in 1..Len(v.object) : NumbersAre(P, v.object[k].second)

\* a number the grammar has a literal for: digits and dots, no sign
Unsigned(n) == ~n.neg

\* zero, or at most six significant digits and a magnitude in [0.0001, 1000000)
SixDigits(n) ==
    /\ ~n.neg
    /\ n.m # 0 =>
          /\ Len(NatDigits(n.m)) <= Precision
          /\ Len(NatDigits(n.m)) - 1 + n.e >= -4
          /\ Len(NatDigits(n.m)) - 1 + n.e < Precision

RoundTripped ==
    res.outcome = "returned" /\ res.error = -1 /\ res.value = val

\* C1 as stated: decode(encode(v)) succeeds with a value structurally equal to
\* v, for every v of the constructors whose strings hold no quote and no
\* backslash and whose numbers the grammar has literals for.
RoundTrip ==
    (pc = "decoded" /\ PlainStrings(val) /\ NumbersAre(Unsigned, val))
        => RoundTripped

\* C1 as amended: the same, for numbers that are zero or have at most six
\* significant digits and a magnitude in [0.0001, 1000000).
RoundTripSixDigits ==
    (pc = "decoded" /\ PlainStrings(val) /\ NumbersAre(SixDigits, val))
        => RoundTripped

\* an object with a string member and a number member went round
RoundTripWitness ==
    /\ pc = "decoded" /\ PlainStrings(val) /\ NumbersAre(SixDigits, val)
    /\ val.type = "object" /\ Len(val.object) = 2
    /\ val.object[1].second.type = "string"
    /\ val.object[2].second.type = "number"
    /\ val.object[2].second.number # Zero

=============================================================================
